---- MODULE Spec2Model ----
(***************************************************************************)
(* Model of the medicine-information pipeline of src/medicine_info.py:     *)
(* select_medication_website, search_single_medicine,                      *)
(* convert_html_to_markdown, extract_medicine_info (with its backoff       *)
(* decorator) and process_medicine_list.                                   *)
(*                                                                         *)
(* Strings are sequences of tokens (a token is a TLA+ string); the word    *)
(* "Error" is one token, so that str.startswith("Error") is a test of the  *)
(* first token.  JSON / Python values are tagged records [t, v].           *)
(***************************************************************************)
EXTENDS Integers, Sequences, FiniteSets, TLC

\* ------------------------------------------------------------------ bounds
\* most search results on one results page (SpecSelect, SpecSearch)
MaxLinks == 3
\* most medicine names in one batch (Spec)
MaxItems == 2
\* most characters of a markdown text (SpecConvert)
MaxText == 7
\* most elements that match the content selectors (SpecConvert)
MaxCandidates == 2

\* ------------------------------------------------------------------ values
\* Python None
None == [t |-> "None", v |-> <<>>]
\* a Python str: v is its token sequence
Str(s) == [t |-> "str", v |-> s]
\* a Python list: v is the sequence of its elements, one token each; the
\* token NotAStr stands for an element that is not a str
List(xs) == [t |-> "list", v |-> xs]
NotAStr == "#1"
\* a key that a dict does not have
Absent == [t |-> "absent", v |-> <<>>]
\* a Python number
Num == [t |-> "num", v |-> <<"1">>]
\* the URL of the page reached by clicking search result k
Url(k) == [t |-> "url", v |-> [j \in 1..k |-> "/"]]

\* Python truthiness of a value: None, "", [] are falsy
Truthy(x) == x.t # "None" /\ Len(x.v) > 0

\* `domain in url_text`: the domain token occurs in the text
Contains(text, domain) == \E k \in 1..Len(text) : text[k] = domain

\* ----------------------------------------------- select_medication_website
preferred_domains ==
    << "1mg.com", "apollopharmacy.in", "webmd.com", "mayoclinic.org",
       "drugs.com", "rxlist.com", "nih.gov", "medlineplus.gov",
       "pharmeasy.in", "netmeds.com" >>

\* href attribute of the parent of a result title: absent (None), a text, or
\* the read raises
HrefTexts ==
    { <<"unknown.example">>, <<"webmd.com">>, <<"1mg.com">>,
      <<"unknown.example", "1mg.com">> }
Hrefs ==
    {[kind |-> "none", text |-> <<>>], [kind |-> "raises", text |-> <<>>]}
    \cup {[kind |-> "text", text |-> h] : h \in HrefTexts}
\* what clicking a result does: the click and the wait succeed, the click
\* raises, or the click succeeds and wait_for_load_state raises
ClickOutcomes == {"ok", "click_raises", "wait_raises"}
Links == [href : Hrefs, click : ClickOutcomes]

SeqsUpTo(S, n) == UNION {[1..k -> S] : k \in 0..n}

\* a loaded results page: whether wait_for_selector('h3') returns, and the
\* h3 elements located
SelectPages == [wait_ok : BOOLEAN, links : SeqsUpTo(Links, MaxLinks)]

\* `parent.get_attribute('href') or ""`
url_text(link) == IF link.href.kind = "text" THEN link.href.text ELSE <<>>

\* the nested loops over preferred_domains (d) and all_links (i); clicks is
\* the sequence of results clicked so far
RECURSIVE ScanPreferred_pageorder(_, _, _, _)
ScanPreferred_pageorder(links, d, i, clicks) ==
    IF i > Len(links) THEN [found |-> FALSE, url |-> None, clicks |-> clicks]
    ELSE IF d > Len(preferred_domains)
         THEN ScanPreferred_pageorder(links, 1, i + 1, clicks)
    ELSE IF links[i].href.kind = "raises"
         THEN ScanPreferred_pageorder(links, d + 1, i, clicks)
    ELSE IF Contains(url_text(links[i]), preferred_domains[d])
         THEN IF links[i].click = "ok"
              THEN [found |-> TRUE, url |-> Url(i), clicks |-> Append(clicks, i)]
              ELSE ScanPreferred_pageorder(links, d + 1, i, Append(clicks, i))
    ELSE ScanPreferred_pageorder(links, d + 1, i, clicks)

RECURSIVE ScanPreferred(_, _, _, _)
ScanPreferred(links, d, i, clicks) ==
    IF d > Len(preferred_domains) THEN [found |-> FALSE, url |-> None, clicks |-> clicks]
    ELSE IF i > Len(links) THEN ScanPreferred(links, d + 1, 1, clicks)
    \* get_attribute raises: except -> continue
    ELSE IF links[i].href.kind = "raises" THEN ScanPreferred(links, d, i + 1, clicks)
    ELSE IF Contains(url_text(links[i]), preferred_domains[d])
         THEN IF links[i].click = "ok"
              THEN [found |-> TRUE, url |-> Url(i), clicks |-> Append(clicks, i)]
              \* click or wait raises: except -> continue
              ELSE ScanPreferred(links, d, i + 1, Append(clicks, i))
    ELSE ScanPreferred(links, d, i + 1, clicks)

\* the fallback: all_links[0].click(), inside its own try
FirstResult_unguarded(links, clicks) ==
    IF Len(links) = 0 THEN [url |-> None, clicks |-> clicks]
    ELSE [url |-> Url(1), clicks |-> Append(clicks, 1)]

FirstResult(links, clicks) ==
    IF Len(links) = 0 THEN [url |-> None, clicks |-> clicks]
    ELSE IF links[1].click = "ok"
         THEN [url |-> Url(1), clicks |-> Append(clicks, 1)]
         ELSE [url |-> None, clicks |-> Append(clicks, 1)]

\* the scan without the wait for the results
select_medication_website_nowait(page) ==
    LET scan == ScanPreferred(page.links, 1, 1, <<>>) IN
    IF scan.found THEN [url |-> scan.url, clicks |-> scan.clicks]
    ELSE FirstResult(page.links, scan.clicks)

\* lines 46-81; wait_for_selector raising goes to the outer except clause
select_medication_website(page) ==
    IF ~page.wait_ok THEN [url |-> None, clicks |-> <<>>]
    ELSE LET scan == ScanPreferred(page.links, 1, 1, <<>>) IN
         IF scan.found THEN [url |-> scan.url, clicks |-> scan.clicks]
         ELSE FirstResult(page.links, scan.clicks)

\* -------------------------------------------------- search_single_medicine
Terms == { <<"paracetamol">>, <<"crocin">> }
\* inner_text() of a spelling affordance: a term, or the read raises
Extractions(terms) ==
    {[kind |-> "raises", text |-> <<>>]} \cup {[kind |-> "text", text |-> w] : w \in terms}

\* the search engine as one search sees it: nav is lines 86-115 (goto,
\* cookie consent, typing, wait), each of which may raise; did_you_mean is
\* is_visible() of the suggestion link; showing_results is count() > 0 of
\* the rewrite notice, read after the suggestion was clicked through
SearchEnvs(pages, terms) ==
    [nav : {"ok", "raises"},
     did_you_mean : BOOLEAN, suggestion : Extractions(terms),
     dym_click : {"ok", "raises"},
     showing_results : BOOLEAN, correction : Extractions(terms),
     results : pages]

\* lines 121-131: the "Did you mean" block
AfterDidYouMean(env, corrected_spelling) ==
    IF env.did_you_mean /\ env.suggestion.kind = "text"
    THEN env.suggestion.text      \* assigned before the click, which may raise
    ELSE corrected_spelling

\* lines 134-141: the "Showing results for" block, an `if` of its own
AfterShowingResults(env, corrected_spelling) ==
    IF env.showing_results /\ env.correction.kind = "text"
    THEN env.correction.text
    ELSE corrected_spelling

\* rewrite_read: whether inner_text() of the rewrite notice was called
search_single_medicine(env, misspelled_medicine) ==
    IF env.nav = "raises"
    THEN [raised |-> TRUE, corrected_name |-> <<>>, url |-> None,
          rewrite_read |-> FALSE, clicks |-> <<>>]
    ELSE LET sel == select_medication_website(env.results) IN
         [raised |-> FALSE,
          corrected_name |->
              AfterShowingResults(env, AfterDidYouMean(env, misspelled_medicine)),
          url |-> sel.url,
          rewrite_read |-> env.showing_results,
          clicks |-> sel.clicks]

\* --------------------------------------------------- extract_medicine_info
max_tries == 3
required_keys ==
    << "medicine_name", "description", "key_benefits", "directions",
       "safety_info", "relevant_info" >>

\* a parsed JSON object: one field per required key, Absent when the object
\* has no such key
NameVals == {Absent, Str(<<>>), Str(<<"Paracetamol">>)}
DescVals ==
    {Absent, Str(<<>>), Str(<<"treats pain">>), Str(<<"Error", "s are rare">>), Num}
BenefitVals == {Absent, List(<<"relief">>), List(<<NotAStr>>), Str(<<"relief">>)}
TextVals == {Absent, Str(<<"text">>)}
Dicts ==
    [medicine_name : NameVals, description : DescVals, key_benefits : BenefitVals,
     directions : TextVals, safety_info : TextVals, relevant_info : TextVals]
NoDict == [k \in {required_keys[j] : j \in 1..Len(required_keys)} |-> Absent]
FullDict ==
    [medicine_name |-> Str(<<"Paracetamol">>), description |-> Str(<<"treats pain">>),
     key_benefits |-> List(<<"relief">>), directions |-> Str(<<"text">>),
     safety_info |-> Str(<<"text">>), relevant_info |-> Str(<<"text">>)]

\* a piece of response text that may be JSON.  parse: "ok" json.loads accepts
\* it after the clean-up of line 324; "nonascii" it does so only once the
\* non-ASCII characters are removed; "escaped" it is valid JSON with \"
\* escapes, which doubling the backslashes breaks; "garbage" it is no JSON.
\* isdict: the JSON value is an object (dict holds it), else a list, string
\* or number.
Body(parse, isdict, dict) == [parse |-> parse, isdict |-> isdict, dict |-> dict]
Bodies ==
    {Body("ok", TRUE, d) : d \in Dicts}
    \cup {Body("ok", FALSE, NoDict), Body("garbage", FALSE, NoDict),
          Body("nonascii", TRUE, FullDict), Body("escaped", TRUE, FullDict)}

\* response text: a sequence of parts, each a fence-with-json marker, a bare fence marker or
\* a body
Part(kind, body) == [kind |-> kind, body |-> body]
FenceJson == Part("fence_json", Body("garbage", FALSE, NoDict))
Fence == Part("fence", Body("garbage", FALSE, NoDict))
Prose == Part("body", Body("garbage", FALSE, NoDict))
Layouts(b) ==
    { <<Part("body", b)>>,
      <<FenceJson, Part("body", b), Fence>>,
      <<Fence, Part("body", b), Fence>>,
      <<Prose, FenceJson, Part("body", b), Fence, Prose>>,
      <<Prose, Part("body", b)>> }

\* what one generate_content call does: raises, or returns a response whose
\* .text is `text`
Raises == [kind |-> "raises", text |-> <<>>]
Text(parts) == [kind |-> "text", text |-> parts]
Responses == {Raises} \cup {Text(l) : l \in UNION {Layouts(b) : b \in Bodies}}
\* responses of the calls after the first
LaterResponses ==
    { Raises, Text(<<Part("body", Body("garbage", FALSE, NoDict))>>),
      Text(<<Part("body", Body("ok", TRUE, FullDict))>>),
      Text(<<Part("body", Body("ok", TRUE,
             [NoDict EXCEPT !.description = Str(<<"treats pain">>)]))>>) }
\* the backend of one extract_medicine_info call: its response to each of the
\* calls 1..max_tries
Backends(first, later) ==
    {<<r>> \o rest : r \in first, rest \in [1..(max_tries - 1) -> later]}

\* s.split(marker)[k] for a part sequence: the parts before the first marker
\* (k = 0), or between the first and the second (k = 1)
RECURSIVE UpTo(_, _)
UpTo(parts, markers) ==
    IF parts = <<>> \/ Head(parts).kind \in markers THEN <<>>
    ELSE <<Head(parts)>> \o UpTo(Tail(parts), markers)
RECURSIVE After(_, _)
After(parts, markers) ==
    IF parts = <<>> THEN <<>>
    ELSE IF Head(parts).kind \in markers THEN Tail(parts)
    ELSE After(Tail(parts), markers)

\* lines 316-321: strip the code fence
json_text(response_text) ==
    IF \E k \in 1..Len(response_text) : response_text[k].kind = "fence_json"
    THEN UpTo(After(response_text, {"fence_json"}), {"fence_json", "fence"})
    ELSE IF \E k \in 1..Len(response_text) : response_text[k].kind = "fence"
    THEN UpTo(After(response_text, {"fence"}), {"fence"})
    ELSE response_text

\* lines 324-332: json.loads, and once more without the non-ASCII characters;
\* a text of no part or of several parts is not one JSON value
loads(text) ==
    IF Len(text) = 1 /\ text[1].body.parse \in {"ok", "nonascii"}
    THEN [raised |-> FALSE, value |-> text[1].body]
    ELSE [raised |-> TRUE, value |-> Body("garbage", FALSE, NoDict)]

\* lines 334-345: the provided name for a missing or empty medicine_name, ""
\* or [] for the other missing keys
FillDefaults_nofill(result, medicine_name) ==
    [result EXCEPT !.medicine_name =
        IF @.t = "absent" \/ ~Truthy(@) THEN Str(medicine_name) ELSE @]

FillDefaults(result, medicine_name) ==
    [k \in DOMAIN result |->
        IF k = "medicine_name"
        THEN IF result[k].t = "absent" \/ ~Truthy(result[k])
             THEN Str(medicine_name) ELSE result[k]
        ELSE IF result[k].t # "absent" THEN result[k]
        ELSE IF k = "key_benefits" THEN List(<<>>) ELSE Str(<<>>)]

\* a record of the result list before its url is set
WithUrl(info, url) ==
    [k \in DOMAIN info \cup {"url"} |-> IF k = "url" THEN url ELSE info[k]]

\* lines 300-347: the try block; raised when anything in it raises, msg is
\* str(e)
TryBlock(response, medicine_name) ==
    IF response.kind = "raises"
    THEN [raised |-> TRUE, msg |-> <<"backend unavailable">>, result |-> NoDict]
    ELSE LET parsed == loads(json_text(response.text)) IN
         IF parsed.raised
         THEN [raised |-> TRUE, msg |-> <<"Expecting value">>, result |-> NoDict]
         ELSE IF ~parsed.value.isdict
         THEN [raised |-> TRUE, msg |-> <<"TypeError">>, result |-> NoDict]
         ELSE [raised |-> FALSE, msg |-> <<>>,
               result |-> FillDefaults(parsed.value.dict, medicine_name)]

\* lines 349-359: the default structure returned on error
ErrorRecord(medicine_name, msg) ==
    [medicine_name |-> Str(medicine_name),
     description |-> Str(<<"Error", " extracting information: ">> \o msg),
     key_benefits |-> List(<<>>), directions |-> Str(<<>>),
     safety_info |-> Str(<<>>), relevant_info |-> Str(<<>>)]

\* lines 277-359: the decorated function body, one call
Body_reraises(response, medicine_name) ==
    LET try == TryBlock(response, medicine_name) IN
    [raised |-> try.raised,
     result |-> IF try.raised THEN ErrorRecord(medicine_name, try.msg) ELSE try.result]

FunctionBody(response, medicine_name) ==
    LET try == TryBlock(response, medicine_name) IN
    [raised |-> FALSE,
     result |-> IF try.raised THEN ErrorRecord(medicine_name, try.msg) ELSE try.result]

\* lines 271-276: backoff.on_exception(expo, Exception, max_tries=3): call
\* again while the call raises and tries are left, then let the last
\* exception through.  calls is the number of calls made.
RECURSIVE on_exception(_, _, _)
on_exception(backend, medicine_name, tries) ==
    LET r == FunctionBody(backend[tries], medicine_name) IN
    IF r.raised /\ tries < max_tries
    THEN on_exception(backend, medicine_name, tries + 1)
    ELSE [raised |-> r.raised, result |-> r.result, calls |-> tries]

extract_medicine_info(backend, markdown_content, medicine_name) ==
    on_exception(backend, medicine_name, 1)

\* ------------------------------------------- extract_medicine_name_from_url
\* the product page as the name extractor sees it: a visible title element
\* with its inner text, a slug in the URL path, nothing, or a locator call
\* that raises (caught inside, line 207)
NamePages ==
    { [kind |-> "title", text |-> <<"Dolo 650">>], [kind |-> "title", text |-> <<>>],
      [kind |-> "slug", text |-> <<"Dolo 650">>],
      [kind |-> "nothing", text |-> <<>>], [kind |-> "raises", text |-> <<>>] }

extract_medicine_name_from_url(page, url) ==
    IF page.kind \in {"title", "slug"} THEN Str(page.text) ELSE None

\* ------------------------------------------------ convert_html_to_markdown
\* a markdown text is a sequence of characters: the newline and one other
NL == "\n"
Texts == SeqsUpTo({NL, "a"}, MaxText)

\* the page HTML as the function sees it: whether parsing, cleaning or
\* markdownify raises; for each element matching a content selector, in the
\* order tried, whether its text is longer than 200 characters; whether the
\* document has a body; the markdown that md() makes of the chosen element
Htmls ==
    [raises : BOOLEAN, candidates : SeqsUpTo(BOOLEAN, MaxCandidates),
     body : BOOLEAN, md : Texts]

\* lines 224-253: the first substantial candidate, else soup.body, which is
\* None in a document without a body
main_content(html) ==
    IF \E k \in 1..Len(html.candidates) : html.candidates[k] THEN "element"
    ELSE IF html.body THEN "body" ELSE "None"

\* line 256: md(str(main_content)); str(None) is the text "None"
md(html) ==
    IF main_content(html) = "None" THEN <<"None">> ELSE html.md

\* the length of the run of newlines that text starts with
RECURSIVE NewlineRun(_)
NewlineRun(text) ==
    IF text # <<>> /\ Head(text) = NL THEN 1 + NewlineRun(Tail(text)) ELSE 0

\* text without its first k characters
Drop(text, k) == SubSeq(text, k + 1, Len(text))

\* re.sub(r'\n{4,}', '\n\n', text)
RECURSIVE re_sub_four(_)
re_sub_four(text) ==
    LET k == NewlineRun(text) IN
    IF text = <<>> THEN <<>>
    ELSE IF k >= 4 THEN <<NL, NL>> \o re_sub_four(Drop(text, k))
    ELSE IF k >= 1 THEN SubSeq(text, 1, k) \o re_sub_four(Drop(text, k))
    ELSE <<Head(text)>> \o re_sub_four(Tail(text))

\* line 260: re.sub(r'\n{3,}', '\n\n', text): every maximal run of three or
\* more newlines is replaced by two
RECURSIVE re_sub(_)
re_sub(text) ==
    LET k == NewlineRun(text) IN
    IF text = <<>> THEN <<>>
    ELSE IF k >= 3 THEN <<NL, NL>> \o re_sub(Drop(text, k))
    ELSE IF k >= 1 THEN SubSeq(text, 1, k) \o re_sub(Drop(text, k))
    ELSE <<Head(text)>> \o re_sub(Tail(text))

\* markdown_content += f" Source URL: {url}" without the two newlines
AddSourceUrl_sameline(text, url) == text \o <<"Source URL: ">> \o url.v

\* line 263: markdown_content += f"\n\nSource URL: {url}"
AddSourceUrl(text, url) == text \o <<NL, NL, "Source URL: ">> \o url.v

\* lines 267-269: the text returned by the except clause
FailedToConvert(msg) == <<"Failed to convert content: ">> \o msg

convert_html_to_markdown(html_content, url) ==
    IF html_content.raises
    THEN Str(FailedToConvert(<<"maximum recursion depth exceeded">>))
    ELSE Str(AddSourceUrl(re_sub(md(html_content)), url))

\* --------------------------------------------------- process_medicine_list
\* lines 394-402: the record appended when the search gave no URL
NoUrlRecord(medicine_name) ==
    [medicine_name |-> Str(medicine_name),
     description |-> Str(<<"Failed to find a reliable URL for this medicine">>),
     key_benefits |-> List(<<>>), directions |-> Str(<<>>),
     safety_info |-> Str(<<>>), relevant_info |-> Str(<<>>), url |-> Str(<<>>)]

\* lines 434-442: the record appended by the item's except clause
ExceptionRecord(medicine_name, msg) ==
    [medicine_name |-> Str(medicine_name),
     description |-> Str(<<"Error", ": ">> \o msg),
     key_benefits |-> List(<<>>), directions |-> Str(<<>>),
     safety_info |-> Str(<<>>), relevant_info |-> Str(<<>>), url |-> Str(<<>>)]

\* ", ".join(benefits)
RECURSIVE Join(_)
Join(xs) ==
    IF Len(xs) <= 1 THEN xs ELSE <<Head(xs), ", ">> \o Join(Tail(xs))

\* medicine_data[key] = entry
Put(medicine_data, key, entry) ==
    [k \in DOMAIN medicine_data \cup {key} |->
        IF k = key THEN entry ELSE medicine_data[k]]

\* lines 461-468: the entry of one record
Entry(info) ==
    [description |-> info.description,
     key_benefits |->
        IF info.key_benefits.t = "list"
        THEN Str(Join(info.key_benefits.v)) ELSE Str(info.key_benefits.v),
     directions |-> info.directions, safety_info |-> info.safety_info,
     relevant_info |-> info.relevant_info, url |-> info.url]

\* lines 449-468: the loop over results that builds medicine_data; join
\* raises TypeError on an element that is not a str
RECURSIVE FormatResults(_, _)
FormatResults(rs, medicine_data) ==
    IF rs = <<>> THEN [raised |-> FALSE, data |-> medicine_data]
    ELSE IF /\ Head(rs).key_benefits.t = "list"
            /\ \E k \in 1..Len(Head(rs).key_benefits.v) :
                   Head(rs).key_benefits.v[k] = NotAStr
         THEN [raised |-> TRUE, data |-> medicine_data]
    ELSE FormatResults(Tail(rs),
                       Put(medicine_data, Head(rs).medicine_name, Entry(Head(rs))))

\* line 420: info["description"] and not info["description"].startswith("Error")
\* raises when the description is truthy and no str
DescriptionCheck(info) ==
    IF ~Truthy(info.description) THEN [raised |-> FALSE, ok |-> FALSE]
    ELSE IF info.description.t # "str" THEN [raised |-> TRUE, ok |-> FALSE]
    ELSE [raised |-> FALSE, ok |-> info.description.v[1] # "Error"]

\* ------------------------------------------------------------------- state
VARIABLES
    sel_page, sel_ret,          \* select_medication_website: page, return
    srch_env, srch_query, srch_ret,   \* search_single_medicine
    \* extract_medicine_info: the backend, the name and the return of the
    \* call (in a batch: of the current item's call)
    emi_backend, emi_name, emi_ret,
    \* convert_html_to_markdown: the arguments, the statement about to run,
    \* the local markdown_content, the return
    conv_html, conv_url, conv_pc, markdown_content, conv_ret,
    \* process_medicine_list:
    pc,                 \* the statement about to run
    medicine_list,      \* the argument
    i,                  \* the item being processed, 1-based; 0 before the loop
    results, success_count,
    corrected_name, url, actual_medicine_name, info,   \* locals of the loop body
    exc,                \* str(e) of the exception in flight
    page, browser,      \* "none", "open" or "closed"
    closes,             \* [page, browser]: how many times each was closed
    stale_use,          \* a stage used the page after it was closed
    steps,              \* stages run for the current item, in order
    delays,             \* pacing delays of the loop so far
    medicine_data,      \* the mapping built from results
    failed              \* the items during which an exception was raised

conv_vars == <<conv_html, conv_url, conv_pc, markdown_content, conv_ret>>
sub_vars == <<sel_page, sel_ret, srch_env, srch_query, srch_ret,
              emi_backend, emi_name, emi_ret, conv_vars>>
batch_vars == <<pc, medicine_list, actual_medicine_name, i, results, success_count, corrected_name,
                url, info, exc, page, browser, closes, stale_use, steps, delays,
                medicine_data, failed>>
vars == <<sub_vars, batch_vars>>

Idle == [t |-> "idle", v |-> <<>>]
Called(ret) == ret # Idle

Names == { <<"dolo">>, <<"ullracet">> }

SelectIdle == sel_page = Idle /\ sel_ret = Idle
SearchIdle == srch_env = Idle /\ srch_query = <<>> /\ srch_ret = Idle
ExtractIdle == emi_backend = <<>> /\ emi_name = <<>> /\ emi_ret = Idle
ConvertIdle ==
    /\ conv_html = Idle /\ conv_url = None /\ conv_pc = "idle"
    /\ markdown_content = <<>> /\ conv_ret = Idle
BatchIdle ==
    /\ pc = "idle" /\ medicine_list = <<>> /\ i = 0 /\ results = <<>>
    /\ success_count = 0 /\ corrected_name = <<>> /\ url = None
    /\ actual_medicine_name = None /\ info = Idle
    /\ exc = <<>> /\ page = "none" /\ browser = "none"
    /\ closes = [page |-> 0, browser |-> 0] /\ stale_use = FALSE
    /\ steps = <<>> /\ delays = 0 /\ medicine_data = <<>> /\ failed = {}

\* -------------------------------------------------------------- SpecSelect
SelectInit ==
    /\ sel_page \in SelectPages
    /\ sel_ret = Idle
    /\ SearchIdle /\ ExtractIdle /\ ConvertIdle /\ BatchIdle

SelectCall ==
    /\ sel_ret = Idle
    /\ sel_ret' = select_medication_website(sel_page)
    /\ UNCHANGED <<sel_page, srch_env, srch_query, srch_ret,
                   emi_backend, emi_name, emi_ret, conv_vars, batch_vars>>

SelectNext == SelectCall

SpecSelect == SelectInit /\ [][SelectNext]_vars

\* -------------------------------------------------------------- SpecSearch
SearchInit ==
    /\ srch_env \in SearchEnvs([wait_ok : BOOLEAN, links : SeqsUpTo(Links, 1)], Terms)
    /\ srch_query \in {n \o <<" medicine links">> : n \in Names}
    /\ srch_ret = Idle
    /\ SelectIdle /\ ExtractIdle /\ ConvertIdle /\ BatchIdle

SearchCall ==
    /\ srch_ret = Idle
    /\ srch_ret' = search_single_medicine(srch_env, srch_query)
    /\ UNCHANGED <<sel_page, sel_ret, srch_env, srch_query,
                   emi_backend, emi_name, emi_ret, conv_vars, batch_vars>>

SearchNext == SearchCall

SpecSearch == SearchInit /\ [][SearchNext]_vars

\* ------------------------------------------------------------- SpecExtract
ExtractInit ==
    /\ emi_backend \in Backends(Responses, LaterResponses)
    /\ emi_name \in Names
    /\ emi_ret = Idle
    /\ SelectIdle /\ SearchIdle /\ ConvertIdle /\ BatchIdle

ExtractCall ==
    /\ emi_ret = Idle
    /\ emi_ret' = extract_medicine_info(emi_backend, <<>>, emi_name)
    /\ UNCHANGED <<sel_page, sel_ret, srch_env, srch_query, srch_ret,
                   emi_backend, emi_name, conv_vars, batch_vars>>

ExtractNext == ExtractCall

SpecExtract == ExtractInit /\ [][ExtractNext]_vars

\* ------------------------------------------------------------- SpecConvert
\* convert_html_to_markdown, statement by statement
ConvertInit ==
    /\ conv_html \in Htmls
    /\ conv_url \in {Url(k) : k \in 1..2}
    /\ conv_pc = "try" /\ markdown_content = <<>> /\ conv_ret = Idle
    /\ SelectIdle /\ SearchIdle /\ ExtractIdle /\ BatchIdle

\* lines 216-256: parse, clean, choose the main content, markdownify; any
\* exception goes to the except clause
ToMarkdown ==
    /\ conv_pc = "try"
    /\ IF conv_html.raises
       THEN conv_pc' = "except" /\ markdown_content' = markdown_content
       ELSE conv_pc' = "sub" /\ markdown_content' = md(conv_html)
    /\ UNCHANGED <<sel_page, sel_ret, srch_env, srch_query, srch_ret,
                   emi_backend, emi_name, emi_ret, conv_html, conv_url,
                   conv_ret, batch_vars>>

\* line 260
RemoveExcessNewlines ==
    /\ conv_pc = "sub"
    /\ markdown_content' = re_sub(markdown_content)
    /\ conv_pc' = "add_url"
    /\ UNCHANGED <<sel_page, sel_ret, srch_env, srch_query, srch_ret,
                   emi_backend, emi_name, emi_ret, conv_html, conv_url,
                   conv_ret, batch_vars>>

\* lines 263-265
AddUrlAndReturn ==
    /\ conv_pc = "add_url"
    /\ markdown_content' = AddSourceUrl(markdown_content, conv_url)
    /\ conv_ret' = Str(markdown_content')
    /\ conv_pc' = "returned"
    /\ UNCHANGED <<sel_page, sel_ret, srch_env, srch_query, srch_ret,
                   emi_backend, emi_name, emi_ret, conv_html, conv_url,
                   batch_vars>>

\* lines 267-269
ConvertExcept ==
    /\ conv_pc = "except"
    /\ conv_ret' = Str(FailedToConvert(<<"maximum recursion depth exceeded">>))
    /\ conv_pc' = "returned"
    /\ UNCHANGED <<sel_page, sel_ret, srch_env, srch_query, srch_ret,
                   emi_backend, emi_name, emi_ret, conv_html, conv_url,
                   markdown_content, batch_vars>>

ConvertNext ==
    ToMarkdown \/ RemoveExcessNewlines \/ AddUrlAndReturn \/ ConvertExcept

SpecConvert == ConvertInit /\ [][ConvertNext]_vars

\* -------------------------------------------------------------------- Spec
\* process_medicine_list, actual_medicine_name, statement by statement

\* the search engine and result pages of a batch
BatchPages ==
    { [wait_ok |-> TRUE, links |-> <<>>] }
    \cup { [wait_ok |-> TRUE,
            links |-> <<[href |-> [kind |-> "text", text |-> <<"1mg.com">>],
                         click |-> c]>>] : c \in {"ok", "click_raises"} }
\* the search engine in a batch: a field that the search does not get to
\* read (the suggestion of a link that is not shown, the page behind a
\* navigation that raised) is held at one value
BatchEnvs ==
    {env \in SearchEnvs(BatchPages, {<<"paracetamol">>}) :
        /\ env.nav = "raises" =>
               /\ ~env.did_you_mean /\ ~env.showing_results
               /\ env.results = [wait_ok |-> TRUE, links |-> <<>>]
        /\ ~env.did_you_mean =>
               env.suggestion.kind = "raises" /\ env.dym_click = "ok"
        /\ env.suggestion.kind = "raises" => env.dym_click = "ok"
        /\ ~env.showing_results => env.correction.kind = "raises"}
\* the first responses of the backend in a batch
BatchDicts ==
    { FullDict,
      [NoDict EXCEPT !.description = Str(<<"treats pain">>)],
      [FullDict EXCEPT !.description = Str(<<>>)],
      [FullDict EXCEPT !.description = Str(<<"Error", "s are rare">>),
                       !.key_benefits = Str(<<"relief">>)],
      [FullDict EXCEPT !.description = Num],
      [FullDict EXCEPT !.key_benefits = List(<<NotAStr>>)] }
BatchResponses ==
    {Raises} \cup {Text(<<Part("body", Body("ok", TRUE, d))>>) : d \in BatchDicts}
\* its response to a call after the first, were there one
BatchLaterResponses ==
    {Text(<<Part("body", Body("ok", TRUE, FullDict))>>)}

Init ==
    /\ SelectIdle /\ SearchIdle /\ ExtractIdle /\ ConvertIdle
    /\ pc = "launch"
    /\ medicine_list \in SeqsUpTo(Names, MaxItems)
    /\ i = 0 /\ results = <<>> /\ success_count = 0
    /\ corrected_name = <<>> /\ url = None /\ actual_medicine_name = None
    /\ info = Idle /\ exc = <<>>
    /\ page = "none" /\ browser = "none"
    /\ closes = [page |-> 0, browser |-> 0] /\ stale_use = FALSE
    /\ steps = <<>> /\ delays = 0 /\ medicine_data = <<>> /\ failed = {}

\* a stage that uses the page runs
UsePage(step) ==
    /\ steps' = Append(steps, step)
    /\ stale_use' = (stale_use \/ page # "open")

\* lines 367-382: the browser session starts, or one of its calls raises:
\* the launch (no browser), or new_context / new_page (a browser, no page)
LaunchOk ==
    /\ pc = "launch"
    /\ pc' = "loop" /\ page' = "open" /\ browser' = "open"
    /\ UNCHANGED <<sub_vars, medicine_list, actual_medicine_name, i, results, success_count,
                   corrected_name, url, info, exc, closes, stale_use, steps,
                   delays, medicine_data, failed>>

LaunchRaises ==
    /\ pc = "launch"
    /\ pc' = "raised" /\ exc' = <<"launch failed">>
    /\ browser' \in {"none", "open"}
    /\ UNCHANGED <<sub_vars, medicine_list, actual_medicine_name, i, results, success_count,
                   corrected_name, url, info, page, closes, stale_use,
                   steps, delays, medicine_data, failed>>

\* the next item begun while the record of this one is not yet appended
NextItem_early ==
    /\ pc \in {"loop", "verify"} /\ i < Len(medicine_list)
    /\ i' = i + 1 /\ pc' = "search" /\ steps' = <<>>
    /\ emi_backend' = <<>> /\ emi_name' = <<>> /\ emi_ret' = Idle
    /\ UNCHANGED <<sel_page, sel_ret, srch_env, srch_query, srch_ret, conv_vars,
                   medicine_list, actual_medicine_name, results, success_count,
                   corrected_name, url, info, exc, page, browser, closes,
                   stale_use, delays, medicine_data, failed>>

\* line 384: the next item, or the end of the loop
NextItem ==
    /\ pc = "loop" /\ i < Len(medicine_list)
    /\ i' = i + 1 /\ pc' = "search" /\ steps' = <<>>
    /\ emi_backend' = <<>> /\ emi_name' = <<>> /\ emi_ret' = Idle
    /\ UNCHANGED <<sel_page, sel_ret, srch_env, srch_query, srch_ret, conv_vars,
                   medicine_list, actual_medicine_name, results, success_count,
                   corrected_name, url, info, exc, page, browser, closes,
                   stale_use, delays, medicine_data, failed>>

LoopEnd ==
    /\ pc = "loop" /\ i = Len(medicine_list)
    /\ pc' = "close_page"
    /\ emi_backend' = <<>> /\ emi_name' = <<>> /\ emi_ret' = Idle
    /\ UNCHANGED <<sel_page, sel_ret, srch_env, srch_query, srch_ret, conv_vars,
                   medicine_list, actual_medicine_name, i, results, success_count,
                   corrected_name, url, info, exc, page, browser, closes,
                   stale_use, steps, delays, medicine_data, failed>>

\* lines 388-392: the search, and the test of its url
Search ==
    /\ pc = "search"
    /\ \E env \in BatchEnvs :
         LET search_term == medicine_list[i] \o <<" medicine links">>
             out == search_single_medicine(env, search_term) IN
         \* what the call was given and what it returned or raised
         /\ srch_query' = search_term
         /\ srch_ret' = [raised |-> out.raised,
                         corrected_name |-> out.corrected_name, url |-> out.url]
         /\ IF out.raised
            THEN /\ pc' = "except" /\ exc' = <<"Timeout 60000ms exceeded">>
                 /\ failed' = failed \cup {i}
                 /\ UNCHANGED <<corrected_name, url>>
            ELSE /\ corrected_name' = out.corrected_name /\ url' = out.url
                 /\ pc' = IF Truthy(out.url) THEN "extract_name" ELSE "no_url"
                 /\ exc' = exc /\ failed' = failed
    /\ UsePage("search")
    /\ UNCHANGED <<sel_page, sel_ret, srch_env, emi_backend, emi_name, emi_ret,
                   conv_vars, medicine_list, actual_medicine_name, i, results,
                   success_count, info, page, browser, closes, delays,
                   medicine_data>>

\* the item is over: what the search and the name extractor returned for it
\* is forgotten
ItemDone ==
    /\ srch_query' = <<>> /\ srch_ret' = Idle
    /\ actual_medicine_name' = None

\* the placeholder without the `continue`
NoUrl_nocontinue ==
    /\ ItemDone
    /\ pc = "no_url"
    /\ results' = Append(results, NoUrlRecord(medicine_list[i]))
    /\ steps' = Append(steps, "append")
    /\ pc' = "extract_name"
    /\ UNCHANGED <<sel_page, sel_ret, srch_env, emi_backend, emi_name, emi_ret,
                   conv_vars, medicine_list, i, success_count, corrected_name,
                   url, info, exc, page, browser, closes, stale_use, delays,
                   medicine_data, failed>>

\* lines 393-403: no URL: the placeholder, then `continue`
NoUrl ==
    /\ ItemDone
    /\ pc = "no_url"
    /\ results' = Append(results, NoUrlRecord(medicine_list[i]))
    /\ steps' = Append(steps, "append")
    /\ pc' = "loop"
    /\ UNCHANGED <<sel_page, sel_ret, srch_env, emi_backend, emi_name, emi_ret,
                   conv_vars, medicine_list, i, success_count, corrected_name,
                   url, info, exc, page, browser, closes, stale_use, delays,
                   medicine_data, failed>>

\* the name on the page is read and not used
ExtractName_keep ==
    /\ pc = "extract_name"
    /\ \E p \in NamePages :
         actual_medicine_name' = extract_medicine_name_from_url(p, url)
    /\ corrected_name' = corrected_name
    /\ UsePage("extract_name")
    /\ pc' = "content"
    /\ UNCHANGED <<sub_vars, medicine_list, i, results, success_count, url,
                   info, exc, page, browser, closes, delays, medicine_data, failed>>

\* lines 406-409: the name on the page overrides the corrected name
ExtractName ==
    /\ pc = "extract_name"
    /\ \E p \in NamePages :
         actual_medicine_name' = extract_medicine_name_from_url(p, url)
    /\ corrected_name' = IF Truthy(actual_medicine_name')
                         THEN actual_medicine_name'.v ELSE corrected_name
    /\ UsePage("extract_name")
    /\ pc' = "content"
    /\ UNCHANGED <<sub_vars, medicine_list, i, results, success_count, url,
                   info, exc, page, browser, closes, delays, medicine_data, failed>>

\* line 412: page.content() returns or raises
ReadContent ==
    /\ pc = "content"
    /\ \/ pc' = "convert" /\ exc' = exc /\ failed' = failed
       \/ /\ pc' = "except" /\ exc' = <<"Timeout 60000ms exceeded">>
          /\ failed' = failed \cup {i}
    /\ UsePage("content")
    /\ UNCHANGED <<sub_vars, medicine_list, actual_medicine_name, i, results, success_count,
                   corrected_name, url, info, page, browser, closes, delays,
                   medicine_data>>

\* line 413: convert_html_to_markdown returns a text, never raises
Convert ==
    /\ pc = "convert"
    /\ pc' = "summarize" /\ steps' = Append(steps, "convert")
    /\ UNCHANGED <<sub_vars, medicine_list, actual_medicine_name, i, results, success_count,
                   corrected_name, url, info, exc, page, browser, closes,
                   stale_use, delays, medicine_data, failed>>

\* lines 416-417: the summarization, and the url attached to its record
Summarize ==
    /\ pc = "summarize"
    /\ \E backend \in Backends(BatchResponses, BatchLaterResponses) :
         LET r == extract_medicine_info(backend, <<>>, corrected_name) IN
         \* the responses that were asked for
         /\ emi_backend' = SubSeq(backend, 1, r.calls)
         /\ emi_name' = corrected_name /\ emi_ret' = r
         /\ IF r.raised
            THEN /\ pc' = "except" /\ exc' = <<"backend unavailable">>
                 /\ info' = info /\ failed' = failed \cup {i}
            ELSE /\ pc' = "verify" /\ exc' = exc /\ info' = WithUrl(r.result, url)
                 /\ failed' = failed
    /\ steps' = Append(steps, "summarize")
    /\ UNCHANGED <<sel_page, sel_ret, srch_env, srch_query, srch_ret,
                   conv_vars, medicine_list, actual_medicine_name, i, results, success_count,
                   corrected_name, url, page, browser, closes, stale_use,
                   delays, medicine_data>>

\* every record appended after a summarization is counted
VerifyAndAppend_countall ==
    /\ ItemDone
    /\ pc = "verify"
    /\ LET check == DescriptionCheck(info) IN
       IF check.raised
       THEN /\ pc' = "except"
            /\ exc' = <<"object has no attribute 'startswith'">>
            /\ failed' = failed \cup {i}
            /\ UNCHANGED <<results, success_count, steps>>
       ELSE /\ success_count' = success_count + 1
            /\ results' = Append(results, info)
            /\ steps' = Append(steps, "append")
            /\ pc' = "pace" /\ exc' = exc /\ failed' = failed
    /\ UNCHANGED <<sel_page, sel_ret, srch_env, emi_backend, emi_name, emi_ret,
                   conv_vars, medicine_list, i, corrected_name, url, info, page,
                   browser, closes, stale_use, delays, medicine_data>>

\* lines 420-426: the success check, then the append
VerifyAndAppend ==
    /\ ItemDone
    /\ pc = "verify"
    /\ LET check == DescriptionCheck(info) IN
       IF check.raised
       THEN /\ pc' = "except"
            /\ exc' = <<"object has no attribute 'startswith'">>
            /\ failed' = failed \cup {i}
            /\ UNCHANGED <<results, success_count, steps>>
       ELSE /\ success_count' = IF check.ok THEN success_count + 1 ELSE success_count
            /\ results' = Append(results, info)
            /\ steps' = Append(steps, "append")
            /\ pc' = "pace" /\ exc' = exc /\ failed' = failed
    /\ UNCHANGED <<sel_page, sel_ret, srch_env, emi_backend, emi_name, emi_ret,
                   conv_vars, medicine_list, i, corrected_name, url, info, page,
                   browser, closes, stale_use, delays, medicine_data>>

\* lines 429-430: the delay between medicines, not after the last
Pace ==
    /\ pc = "pace"
    /\ delays' = IF i - 1 < Len(medicine_list) - 1 THEN delays + 1 ELSE delays
    /\ pc' = "loop"
    /\ UNCHANGED <<sub_vars, medicine_list, actual_medicine_name, i, results, success_count,
                   corrected_name, url, info, exc, page, browser, closes,
                   stale_use, steps, medicine_data, failed>>

\* lines 432-442: the item's except clause
ItemException_cleanup ==
    /\ ItemDone
    /\ pc = "except"
    /\ results' = Append(results, ExceptionRecord(medicine_list[i], exc))
    /\ steps' = Append(steps, "append")
    /\ page' = "closed" /\ browser' = "closed"
    /\ closes' = [page |-> closes.page + 1, browser |-> closes.browser + 1]
    /\ pc' = "loop" /\ exc' = <<>>
    /\ UNCHANGED <<sel_page, sel_ret, srch_env, emi_backend, emi_name, emi_ret,
                   conv_vars, medicine_list, i, success_count, corrected_name,
                   url, info, stale_use, delays, medicine_data, failed>>

ItemException_break ==
    /\ ItemDone
    /\ pc = "except"
    /\ results' = Append(results, ExceptionRecord(medicine_list[i], exc))
    /\ steps' = Append(steps, "append")
    /\ pc' = "close_page" /\ exc' = <<>>
    /\ UNCHANGED <<sel_page, sel_ret, srch_env, emi_backend, emi_name, emi_ret,
                   conv_vars, medicine_list, i, success_count, corrected_name,
                   url, info, page, browser, closes, stale_use, delays,
                   medicine_data, failed>>

ItemException ==
    /\ ItemDone
    /\ pc = "except"
    /\ results' = Append(results, ExceptionRecord(medicine_list[i], exc))
    /\ steps' = Append(steps, "append")
    /\ pc' = "loop" /\ exc' = <<>>
    /\ UNCHANGED <<sel_page, sel_ret, srch_env, emi_backend, emi_name, emi_ret,
                   conv_vars, medicine_list, i, success_count, corrected_name,
                   url, info, page, browser, closes, stale_use, delays,
                   medicine_data, failed>>

\* line 445
ClosePage ==
    /\ pc = "close_page"
    /\ page' = "closed" /\ closes' = [closes EXCEPT !.page = @ + 1]
    /\ pc' = "close_browser"
    /\ UNCHANGED <<sub_vars, medicine_list, actual_medicine_name, i, results, success_count,
                   corrected_name, url, info, exc, browser, stale_use, steps,
                   delays, medicine_data, failed>>

\* line 446
CloseBrowser ==
    /\ pc = "close_browser"
    /\ browser' = "closed" /\ closes' = [closes EXCEPT !.browser = @ + 1]
    /\ pc' = "format"
    /\ UNCHANGED <<sub_vars, medicine_list, actual_medicine_name, i, results, success_count,
                   corrected_name, url, info, exc, page, stale_use, steps,
                   delays, medicine_data, failed>>

\* lines 449-468: the mapping is built, or the join raises
Format ==
    /\ pc = "format"
    /\ LET f == FormatResults(results, <<>>) IN
       /\ medicine_data' = f.data
       /\ IF f.raised
          THEN pc' = "raised" /\ exc' = <<"sequence item 0: expected str instance">>
          ELSE pc' = "report" /\ exc' = exc
    /\ UNCHANGED <<sub_vars, medicine_list, actual_medicine_name, i, results, success_count,
                   corrected_name, url, info, page, browser, closes, stale_use,
                   steps, delays, failed>>

\* lines 471-473: the success rate (a division by len(medicine_list)) is
\* printed and the mapping returned
Report ==
    /\ pc = "report"
    /\ IF Len(medicine_list) = 0
       THEN pc' = "raised" /\ exc' = <<"division by zero">>
       ELSE pc' = "returned" /\ exc' = exc
    /\ UNCHANGED <<sub_vars, medicine_list, actual_medicine_name, i, results, success_count,
                   corrected_name, url, info, page, browser, closes, stale_use,
                   steps, delays, medicine_data, failed>>

Next ==
    \/ LaunchOk \/ LaunchRaises \/ NextItem \/ LoopEnd \/ Search \/ NoUrl
    \/ ExtractName \/ ReadContent \/ Convert \/ Summarize \/ VerifyAndAppend
    \/ Pace \/ ItemException \/ ClosePage \/ CloseBrowser \/ Format \/ Report

Spec == Init /\ [][Next]_vars

\* =================================================================== claims

\* ---- process_medicine_list (Spec)
InItem ==
    pc \in {"search", "no_url", "extract_name", "content", "convert",
            "summarize", "verify", "except"}
AfterLoop ==
    \/ pc \in {"close_page", "close_browser", "format", "report", "returned"}
    \/ pc = "raised" /\ page # "none"
AllKeys == {required_keys[k] : k \in 1..Len(required_keys)} \cup {"url"}

\* C1: for a list of N >= 1 names, the mapping returned has exactly N entries.
C1_MappingHasNEntries ==
    pc = "returned" => Cardinality(DOMAIN medicine_data) = Len(medicine_list)

\* C2: once the browser session has started, process_medicine_list returns
\* and never raises.
C2_ReturnsOnceStarted ==
    pc = "raised" => page = "none"

\* the object parsed from the first response of the item's backend call
FirstObject == json_text(emi_backend[1].text)[1].body.dict
FirstIsObject ==
    /\ Called(emi_ret) /\ emi_backend[1].kind = "text"
    /\ Len(json_text(emi_backend[1].text)) = 1
    /\ json_text(emi_backend[1].text)[1].body.parse \in {"ok", "nonascii"}
    /\ json_text(emi_backend[1].text)[1].body.isdict

\* C3: every record of the result list has all of medicine_name, description,
\* key_benefits, directions, safety_info, relevant_info and url; and in the
\* record appended after a summarization, a key missing from the backend's
\* parsed object is "" (key_benefits: []) and a key it has keeps its value.
C3_RecordsAreComplete ==
    /\ \A n \in 1..Len(results) :
          /\ DOMAIN results[n] = AllKeys
          /\ \A key \in AllKeys : results[n][key].t # "absent"
    /\ (pc = "pace" /\ FirstIsObject) =>
          \A key \in AllKeys \ {"medicine_name", "url"} :
             results[Len(results)][key] =
                IF FirstObject[key].t # "absent" THEN FirstObject[key]
                ELSE IF key = "key_benefits" THEN List(<<>>) ELSE Str(<<>>)

C3_Witness ==
    /\ pc = "pace" /\ FirstIsObject
    /\ FirstObject.key_benefits.t = "absent" /\ FirstObject.directions.t = "absent"
    /\ results[Len(results)].key_benefits = List(<<>>)
    /\ results[Len(results)].directions = Str(<<>>)
    /\ results[Len(results)].url = Url(1)

\* the placeholder failure record of item n
IsFailureRecord(rec, n) ==
    /\ rec.medicine_name = Str(medicine_list[n])
    /\ Len(rec.description.v) >= 2
    /\ rec.description.v[1] = "Error" /\ rec.description.v[2] = ": "
    /\ rec.key_benefits = List(<<>>) /\ rec.directions = Str(<<>>)
    /\ rec.safety_info = Str(<<>>) /\ rec.relevant_info = Str(<<>>)
    /\ rec.url = Str(<<>>)

\* C9: an exception raised at any step of item n appends exactly one
\* placeholder failure record, as record n, and later items are processed:
\* the result list has one record per item begun, and after the loop one per
\* input name, record n being that of item n.
C9_FailureDoesNotStopTheBatch ==
    /\ InItem => Len(results) = i - 1
    /\ pc \in {"pace", "loop"} => Len(results) = i
    /\ AfterLoop => Len(results) = Len(medicine_list) /\ i = Len(medicine_list)
    /\ \A n \in failed : n <= Len(results) => IsFailureRecord(results[n], n)
    /\ \A n \in 1..Len(results) :
          n \notin failed =>
             /\ ~IsFailureRecord(results[n], n)
             /\ results[n].url = Str(<<>>) => results[n] = NoUrlRecord(medicine_list[n])

\* the first item failed and the second was summarized
C9_Witness ==
    /\ pc = "returned" /\ Len(medicine_list) = 2 /\ failed = {1}
    /\ medicine_list[1] # medicine_list[2]
    /\ results[2].url = Url(1)

\* C10: whatever items fail, the page and the browser are each closed exactly
\* once, after the last item has been processed, and no stage uses the page
\* after it was closed.
C10_ClosedOnceAfterTheLastItem ==
    /\ ~stale_use
    /\ InItem => page = "open" /\ browser = "open"
    /\ page = "closed" =>
          closes.page = 1 /\ i = Len(medicine_list)
          /\ Len(results) = Len(medicine_list)
    /\ browser = "closed" =>
          closes.browser = 1 /\ page = "closed"
    /\ page # "closed" => closes.page = 0
    /\ browser # "closed" => closes.browser = 0
    /\ (AfterLoop /\ pc \notin {"close_page", "close_browser"}) =>
          page = "closed" /\ browser = "closed"

\* a batch in which one item failed and another did not has returned
C10_Witness ==
    /\ pc = "returned" /\ Len(medicine_list) = 2 /\ failed = {1}
    /\ closes = [page |-> 1, browser |-> 1]

\* ---- process_medicine_list (Spec), the stages of one item
\* the search of the item under way returned, and returned no URL
SearchGaveNoUrl ==
    InItem /\ Called(srch_ret) /\ ~srch_ret.raised /\ ~Truthy(srch_ret.url)
\* the item just finished took the no-URL path
NoUrlItemDone ==
    pc = "loop" /\ i >= 1 /\ i \notin failed /\ steps = <<"search", "append">>
\* a stage after the search is about to run
AfterSearch == pc \in {"extract_name", "content", "convert", "summarize", "verify"}
ContentFields ==
    {"description", "key_benefits", "directions", "safety_info", "relevant_info"}
IsEmpty(value) == value.t \in {"str", "list"} /\ value.v = <<>>

\* C15 (as stated): when the search returns no URL, a placeholder record
\* with empty description, key_benefits, directions, safety_info,
\* relevant_info and url is appended for the item, no name extraction,
\* normalization or summarization runs for it, and the loop goes on.
C15_NoUrlPlaceholderIsEmpty ==
    /\ SearchGaveNoUrl => pc = "no_url" /\ steps = <<"search">>
    /\ AfterSearch => Called(srch_ret) /\ Truthy(srch_ret.url)
    /\ NoUrlItemDone =>
          /\ Len(results) = i
          /\ ~Called(emi_ret)
          /\ results[i].medicine_name = Str(medicine_list[i])
          /\ \A key \in ContentFields : IsEmpty(results[i][key])
          /\ IsEmpty(results[i].url)

\* C15 (amended): ... the placeholder's description is the text "Failed to
\* find a reliable URL for this medicine"; its key_benefits, directions,
\* safety_info, relevant_info and url are empty; no name extraction,
\* normalization or summarization runs for the item, and the loop goes on.
C15_NoUrlPlaceholderHasMessage ==
    /\ SearchGaveNoUrl => pc = "no_url" /\ steps = <<"search">>
    /\ AfterSearch => Called(srch_ret) /\ Truthy(srch_ret.url)
    /\ NoUrlItemDone =>
          /\ Len(results) = i
          /\ ~Called(emi_ret)
          /\ results[i].medicine_name = Str(medicine_list[i])
          /\ results[i].description =
                 Str(<<"Failed to find a reliable URL for this medicine">>)
          /\ \A key \in ContentFields \ {"description"} : IsEmpty(results[i][key])
          /\ IsEmpty(results[i].url)

\* the first of two items got no URL, and the loop is about to go on
C15_Witness ==
    /\ NoUrlItemDone
    /\ i = 1 /\ Len(medicine_list) = 2
    /\ results[1].url = Str(<<>>)

\* the records whose description is non-empty and does not start with "Error"
Successes ==
    {n \in 1..Len(results) :
        /\ results[n].description.t = "str"
        /\ Truthy(results[n].description)
        /\ results[n].description.v[1] # "Error"}

\* C16 (as stated): after the loop, success_count is the number of records
\* whose description is non-empty and does not start with "Error", and is at
\* most the number of input names.
C16_SuccessCountMatchesRecords ==
    AfterLoop =>
        /\ success_count = Cardinality(Successes)
        /\ success_count <= Len(medicine_list)

\* C16 (amended): after the loop, success_count is the number of records
\* appended after a summarization (those with a non-empty url) whose
\* description is non-empty and does not start with "Error"; the no-URL
\* placeholder, whose description is a fixed message, is not counted; and
\* success_count is at most the number of input names.
C16_SuccessCountMatchesSummarized ==
    AfterLoop =>
        /\ success_count = Cardinality({n \in Successes : Truthy(results[n].url)})
        /\ success_count <= Len(medicine_list)

\* a no-URL placeholder followed by a successful record
C16_Witness ==
    /\ pc = "returned" /\ Len(medicine_list) = 2
    /\ failed = {} /\ results[1].url = Str(<<>>)
    /\ Successes = {1, 2}
    /\ success_count = 1

\* C17: when an item begins, one pacing delay has happened for each item
\* before it, whatever its outcome; after the loop, one for each item but
\* the last.
C17_OneDelayBetweenItems ==
    /\ pc = "search" => delays = i - 1
    /\ (AfterLoop /\ Len(medicine_list) >= 1) => delays = Len(medicine_list) - 1

\* the stages of an item that use the page or its content, in source order
StageOrder == <<"search", "extract_name", "content", "convert", "summarize">>
Stages(k) == SubSeq(StageOrder, 1, k)

\* C18: items are taken in input order on the one open page; the stages of
\* an item run in the order search, name extraction, page read,
\* normalization, summarization, append, each after the one before it; an
\* item begins only when every item before it has its record.
C18_StagesInOrder ==
    /\ ~stale_use
    /\ InItem => page = "open" /\ Len(results) = i - 1 /\ i <= Len(medicine_list)
    /\ pc \in {"pace", "loop"} => Len(results) = i
    /\ pc = "search" => steps = <<>>
    /\ pc \in {"extract_name", "no_url"} => steps = Stages(1)
    /\ pc = "content" => steps = Stages(2)
    /\ pc = "convert" => steps = Stages(3)
    /\ pc = "summarize" => steps = Stages(4)
    /\ pc = "verify" => steps = Stages(5)
    /\ pc = "pace" => steps = Append(Stages(5), "append")
    /\ pc = "except" => \E k \in 1..5 : steps = Stages(k)
    /\ (pc = "loop" /\ i >= 1) =>
          \E k \in 1..5 : steps = Append(Stages(k), "append")

\* the second of two items has gone through every stage
C18_Witness ==
    /\ pc = "loop" /\ i = 2 /\ failed = {}
    /\ steps = Append(Stages(5), "append")
    /\ Truthy(results[1].url) /\ Truthy(results[2].url)

ValidAllSix(response) ==
    /\ response.kind = "text"
    /\ Len(json_text(response.text)) = 1
    /\ LET b == json_text(response.text)[1].body IN
       /\ b.parse = "ok" /\ b.isdict
       /\ \A k \in DOMAIN b.dict : b.dict[k].t # "absent"
       /\ Truthy(b.dict.medicine_name)
\* the call raises or its response cannot be parsed
FailsToParse(response) ==
    \/ response.kind = "raises"
    \/ Len(json_text(response.text)) # 1
    \/ json_text(response.text)[1].body.parse \in {"garbage", "escaped"}

\* C4: when the backend raises on the first two calls and the third call
\* returns valid JSON with all six keys, extract_medicine_info returns the
\* record parsed from the third response, having called the backend 3 times.
C4_ThirdAttemptIsReturned ==
    ( /\ Called(emi_ret)
      /\ emi_backend[1].kind = "raises" /\ emi_backend[2].kind = "raises"
      /\ ValidAllSix(emi_backend[3]) )
    => /\ ~emi_ret.raised
       /\ emi_ret.calls = 3
       /\ emi_ret.result = json_text(emi_backend[3].text)[1].body.dict

\* C5: when every backend call raises or returns an unparseable response,
\* extract_medicine_info does not raise and returns a record whose
\* description is non-empty and starts with the error indicator, whose
\* key_benefits is [] and whose directions, safety_info and relevant_info
\* are "".
C5_AllFailGivesErrorRecord ==
    ( /\ Called(emi_ret)
      /\ \A k \in 1..max_tries : FailsToParse(emi_backend[k]) )
    => /\ ~emi_ret.raised
       /\ emi_ret.result.description.t = "str"
       /\ Len(emi_ret.result.description.v) > 0
       /\ emi_ret.result.description.v[1] = "Error"
       /\ emi_ret.result.key_benefits = List(<<>>)
       /\ emi_ret.result.directions = Str(<<>>)
       /\ emi_ret.result.safety_info = Str(<<>>)
       /\ emi_ret.result.relevant_info = Str(<<>>)

C5_Witness ==
    /\ Called(emi_ret)
    /\ \A k \in 1..max_tries : emi_backend[k].kind = "raises"
    /\ ~emi_ret.raised

\* ---- select_medication_website (SpecSelect)
\* the href read of result r contains preferred domain d
Matches(links, r, d) ==
    links[r].href.kind = "text" /\ Contains(links[r].href.text, preferred_domains[d])
AnyPreferred(links) ==
    \E r \in 1..Len(links), d \in 1..Len(preferred_domains) : Matches(links, r, d)
\* the earliest preferred-list domain that any result matches
BestDomain(links) ==
    CHOOSE d \in 1..Len(preferred_domains) :
        /\ \E r \in 1..Len(links) : Matches(links, r, d)
        /\ \A e \in 1..(d - 1) : \A r \in 1..Len(links) : ~Matches(links, r, e)
\* the first result in page order that matches it
BestLink(links) ==
    CHOOSE r \in 1..Len(links) :
        /\ Matches(links, r, BestDomain(links))
        /\ \A j \in 1..(r - 1) : ~Matches(links, j, BestDomain(links))

\* C6: when some result's link contains a preferred domain and clicks
\* succeed, the one result clicked is the first in page order whose link
\* contains the earliest preferred-list domain that any result matches, and
\* the URL of its page is returned.
C6_PreferenceBeatsPageOrder ==
    ( /\ Called(sel_ret) /\ sel_page.wait_ok
      /\ AnyPreferred(sel_page.links)
      /\ \A r \in 1..Len(sel_page.links) : sel_page.links[r].click = "ok" )
    => /\ sel_ret.clicks = <<BestLink(sel_page.links)>>
       /\ sel_ret.url = Url(BestLink(sel_page.links))

\* a later result of a higher-priority domain is chosen over an earlier
\* result of a lower-priority domain
C6_Witness ==
    /\ Called(sel_ret) /\ sel_page.wait_ok
    /\ \A r \in 1..Len(sel_page.links) : sel_page.links[r].click = "ok"
    /\ Len(sel_page.links) >= 2
    /\ Matches(sel_page.links, 1, 3)
    /\ Matches(sel_page.links, 2, 1)
    /\ sel_ret.clicks = <<2>>

\* no result's link contains a preferred domain, and there is a result
NoPreferred ==
    /\ Called(sel_ret) /\ sel_page.wait_ok
    /\ Len(sel_page.links) >= 1
    /\ ~AnyPreferred(sel_page.links)

\* C7 (as stated): when the result list is non-empty and no result's link
\* contains a preferred domain, the first result is clicked and the URL of
\* the page reached is returned.
C7_FirstResultUrlReturned ==
    NoPreferred => sel_ret.clicks = <<1>> /\ sel_ret.url = Url(1)

\* C7 (amended): ... the first result, and only it, is clicked; the URL of
\* the page reached is returned when the click and the wait for network idle
\* succeed, and null when either raises.
C7_FirstResultClicked ==
    NoPreferred =>
        /\ sel_ret.clicks = <<1>>
        /\ sel_page.links[1].click = "ok" => sel_ret.url = Url(1)
        /\ sel_page.links[1].click # "ok" => sel_ret.url = None

C7_Witness ==
    /\ NoPreferred
    /\ Len(sel_page.links) >= 2
    /\ sel_ret.url = Url(1)

\* ---- search_single_medicine (SpecSearch)
\* C8: whenever a "did you mean" suggestion is shown and its term is
\* extracted, corrected_name is that term, and the "showing results for"
\* rewrite is not consulted.
C8_SuggestionIsReturned ==
    ( /\ Called(srch_ret) /\ ~srch_ret.raised
      /\ srch_env.did_you_mean /\ srch_env.suggestion.kind = "text" )
    => /\ srch_ret.corrected_name = srch_env.suggestion.text
       /\ ~srch_ret.rewrite_read

\* C19: when neither a suggestion nor a rewrite is shown, or when reading
\* the text of either one raises, the search returns, and its corrected_name
\* is the query it was given.
C19_FailedExtractionKeepsQuery ==
    ( /\ Called(srch_ret) /\ srch_env.nav = "ok"
      /\ \/ ~srch_env.did_you_mean /\ ~srch_env.showing_results
         \/ srch_env.did_you_mean /\ srch_env.suggestion.kind = "raises"
         \/ srch_env.showing_results /\ srch_env.correction.kind = "raises" )
    => /\ ~srch_ret.raised
       /\ srch_ret.corrected_name = srch_query

\* ---- select_medication_website (SpecSelect), error paths
\* C13: when the click on the selected result (the first one clicked), or
\* the wait after it, fails, null is returned and no other result is clicked.
C13_FailedClickReturnsNull ==
    ( /\ Called(sel_ret) /\ Len(sel_ret.clicks) >= 1
      /\ sel_page.links[sel_ret.clicks[1]].click # "ok" )
    => /\ sel_ret.url = None
       /\ Len(sel_ret.clicks) = 1

\* C14: when the wait for the results times out, or the list of results
\* located is empty, null is returned and nothing is clicked.
C14_NoResultsReturnsNull ==
    ( /\ Called(sel_ret)
      /\ ~sel_page.wait_ok \/ Len(sel_page.links) = 0 )
    => /\ sel_ret.url = None
       /\ sel_ret.clicks = <<>>

\* the wait timed out on a page that holds a result of a preferred domain
C14_Witness ==
    /\ Called(sel_ret) /\ ~sel_page.wait_ok
    /\ AnyPreferred(sel_page.links)
    /\ sel_ret.url = None /\ sel_ret.clicks = <<>>

\* ---- convert_html_to_markdown (SpecConvert)

\* the lines of a text: the pieces between its newlines
RECURSIVE Split(_)
Split(text) ==
    LET ks == {k \in 1..Len(text) : text[k] = NL} IN
    IF ks = {} THEN <<text>>
    ELSE LET p == CHOOSE k \in ks : \A m \in ks : k <= m IN
         <<SubSeq(text, 1, p - 1)>> \o Split(Drop(text, p))

LastLine(text) == Split(text)[Len(Split(text))]

\* C11 (as stated): the function returns a text whatever the HTML and the
\* URL, and the last line of that text is "Source URL: " and the URL.
C11_EndsWithSourceUrlLine ==
    /\ conv_pc # "raised"
    /\ conv_pc = "returned" =>
           /\ conv_ret.t = "str"
           /\ LastLine(conv_ret.v) = <<"Source URL: ">> \o conv_url.v

\* C11 (amended): the function returns a text whatever the HTML and the URL;
\* when nothing raises inside, the last line of the text is "Source URL: "
\* and the URL; when something raises inside, the text is
\* "Failed to convert content: " and the message, without that line.
C11_EndsWithSourceUrlLineUnlessFailed ==
    /\ conv_pc # "raised"
    /\ conv_pc = "returned" =>
           /\ conv_ret = convert_html_to_markdown(conv_html, conv_url)
           /\ conv_ret.t = "str"
           /\ IF conv_html.raises
              THEN /\ Head(conv_ret.v) = "Failed to convert content: "
                   /\ ~Contains(conv_ret.v, "Source URL: ")
              ELSE LastLine(conv_ret.v) = <<"Source URL: ">> \o conv_url.v

C11_Witness ==
    /\ conv_pc = "returned" /\ ~conv_html.raises
    /\ Len(md(conv_html)) > 0
    /\ LastLine(conv_ret.v) = <<"Source URL: ">> \o conv_url.v

\* the lines of a text, each ended by a newline; what follows the last
\* newline is a line when it is not empty
Lines(text) ==
    LET sp == Split(text) IN
    IF sp[Len(sp)] = <<>> THEN SubSeq(sp, 1, Len(sp) - 1) ELSE sp

\* the lengths of the runs of blank (empty) lines of a text: before its
\* first non-blank line, between each two non-blank lines that follow one
\* another, and after the last; cur is the length of the run being read
RECURSIVE RunsFrom(_, _)
RunsFrom(lines, cur) ==
    IF lines = <<>> THEN <<cur>>
    ELSE IF Head(lines) = <<>> THEN RunsFrom(Tail(lines), cur + 1)
    ELSE <<cur>> \o RunsFrom(Tail(lines), 0)

BlankRuns(text) == RunsFrom(Lines(text), 0)

NonBlankLines(text) == SelectSeq(Lines(text), LAMBDA l : l # <<>>)

\* the text before and after line 260
BeforeSub == md(conv_html)
AfterSub == markdown_content

\* C12 (as stated): the collapsing step turns every run of four or more
\* blank lines into exactly one blank line, leaves no run of more than one
\* blank line anywhere in its output, and applied to its output changes
\* nothing.
C12_NoTwoBlankLinesAnywhere ==
    conv_pc = "add_url" =>
        /\ NonBlankLines(AfterSub) = NonBlankLines(BeforeSub)
        /\ \A k \in 1..Len(BlankRuns(BeforeSub)) :
               BlankRuns(BeforeSub)[k] >= 4 => BlankRuns(AfterSub)[k] = 1
        /\ \A k \in 1..Len(BlankRuns(AfterSub)) : BlankRuns(AfterSub)[k] <= 1
        /\ re_sub(AfterSub) = AfterSub

\* C12 (amended): the collapsing step keeps the non-blank lines, turns every
\* run of four or more blank lines that follows a non-blank line into
\* exactly one blank line, leaves no run of more than one blank line after a
\* non-blank line and no run of more than two newlines anywhere (so that at
\* the very start of the text two blank lines may remain), and applied to
\* its output changes nothing.
C12_OneBlankLineBetweenParagraphs ==
    conv_pc = "add_url" =>
        /\ NonBlankLines(AfterSub) = NonBlankLines(BeforeSub)
        /\ \A k \in 2..Len(BlankRuns(BeforeSub)) :
               BlankRuns(BeforeSub)[k] >= 4 => BlankRuns(AfterSub)[k] = 1
        /\ \A k \in 2..Len(BlankRuns(AfterSub)) :
               BlankRuns(AfterSub)[k] <= 1
        /\ \A k \in 1..Len(AfterSub) : NewlineRun(Drop(AfterSub, k - 1)) <= 2
        /\ re_sub(AfterSub) = AfterSub

C12_Witness ==
    /\ conv_pc = "add_url"
    /\ \E k \in 2..(Len(BlankRuns(BeforeSub)) - 1) :
           BlankRuns(BeforeSub)[k] >= 4 /\ BlankRuns(AfterSub)[k] = 1

====
